---- MODULE Spec2Model ----
(***************************************************************************)
(* Model of the bracket store of app.py: the Division, Competitor and      *)
(* Match tables, and the request handlers that change them.                *)
(*                                                                         *)
(* A table is a sequence of rows, a row's id being its index (SQLite       *)
(* integer primary keys count up from 1).  The variables hold the          *)
(* COMMITTED rows.  A handler works on its request's session: what it      *)
(* assigns becomes visible to later requests only through                  *)
(* db.session.commit(); a handler that returns, or raises, before its      *)
(* commit leaves the tables as they were (the session is dropped when the  *)
(* request's application context is torn down).                            *)
(***************************************************************************)
EXTENDS Integers, Sequences, FiniteSets, TLC

VARIABLES divisions, competitors, matches, rings, reqs, resp, nOps

vars == <<divisions, competitors, matches, rings, reqs, resp, nOps>>

\* ------------------------------------------------------------------ bounds
\* Competitors a division gets, requests made on matches, and rows of the
\* Match table, in the specification of arbitrary requests (Spec).
MaxComp == 4
MaxOps == 2
MaxMatches == 3
\* Competitors in the specification of regular play (SpecPlay), and in the
\* specification of bracket building alone (SpecGen).
PlayMaxComp == 4
GenMaxComp == 7
\* Competitors in the specification of the larger brackets (SpecNames).
NameMaxComp == 33
\* Competitors, and result requests in flight together, in the specification
\* of concurrent result recording (SpecRace).
RaceMaxComp == 4
MaxRequests == 2
\* Competitors of the largest division in the specification of the brackets
\* of every size (SpecSweep).
SweepMaxComp == 5
\* Competitors and scheduling requests in the specification of the
\* administration (SpecAdmin).
AdminMaxComp == 4
AdminMaxOps == 2

\* ------------------------------------------------------------------ values
\* Python's None; ids start at 1, so 0 is free to stand for it.  `not x` is
\* true of None.
NULL == 0

Falsy(x) == x = NULL

DivIds == {1}
RingIds == {1, 2}
RingSequences == {1}

Completed == "Completed"
Disqualification == "Disqualification"
InProgress == "In Progress"
Pending == "Pending"
Bye == "Completed (Bye)"

\* The "status" a result request may carry.
StatusInputs == {InProgress, Completed, Disqualification, Bye}

Match(div_id, c1, c2, winner, status, round_name) ==
    [division_id |-> div_id, ring_id |-> NULL,
     competitor1_id |-> c1, competitor2_id |-> c2, winner_id |-> winner,
     next_match_id |-> NULL, match_number |-> NULL,
     status |-> status, round_name |-> round_name]

\* A deleted row leaves its id behind until the ids above it are gone too
\* (SQLite gives a new row the largest id in the table plus one): the place of
\* a deleted row in the sequence holds a row of no division.
NoMatch == Match(NULL, NULL, NULL, NULL, "", "")
NoCompetitor == [division_id |-> NULL]

\* Match.query.get(match_id) finds a row.
MatchExists(match_id) ==
    /\ match_id \in 1..Len(matches)
    /\ matches[match_id].division_id # NULL

\* What the last request was and how it was answered: the handler, the HTTP
\* status, and, of a result request, the match id, status and winner id sent.
NoRequest == <<>>
Response(op, code, request) == [op |-> op, code |-> code, request |-> request]

Init ==
    /\ divisions = {}
    /\ competitors = <<>>
    /\ matches = <<>>
    /\ rings = {}
    /\ reqs = <<>>
    /\ resp = Response("none", 0, NoRequest)
    /\ nOps = 0

\* ---------------------------------------------------------------- sessions
\* The handler's session reaches the table: db.session.commit().
Commit(session, op, code, request) ==
    /\ matches' = session
    /\ resp' = Response(op, code, request)
    /\ UNCHANGED <<divisions, competitors, rings, reqs>>

AbortCommitting(session, op, code, request) ==
    /\ matches' = session
    /\ resp' = Response(op, code, request)
    /\ UNCHANGED <<divisions, competitors, rings, reqs>>

\* The handler returns (or raises) before any commit: the session's pending
\* assignments are dropped with the request.
Abort(session, op, code, request) ==
    /\ resp' = Response(op, code, request)
    /\ UNCHANGED <<divisions, competitors, matches, rings, reqs>>

\* ------------------------------------------------------- divisions, entries
manage_divisions ==
    /\ \E d \in DivIds :
        /\ d \notin divisions
        /\ d = Cardinality(divisions) + 1
        /\ divisions' = divisions \cup {d}
    /\ resp' = Response("manage_divisions", 201, NoRequest)
    /\ UNCHANGED <<competitors, matches, rings, reqs>>

\* The ids of division div_id's competitors, in id order.
CompetitorsOf(div_id) ==
    SelectSeq([i \in 1..Len(competitors) |-> i],
              LAMBDA i : competitors[i].division_id = div_id)

\* k names are posted; the division is not looked up.
ui_add_competitors(div_id, k) ==
    /\ competitors' = competitors \o [i \in 1..k |-> [division_id |-> div_id]]
    /\ resp' = Response("ui_add_competitors", 200, NoRequest)
    /\ UNCHANGED <<divisions, matches, rings, reqs>>

\* -------------------------------------------------- rings, deleted divisions
AdminDivIds == {1, 2}
AdminRingIds == {1}
SequenceInputs == {25}

\* The largest id of a table.
MaxId(ids) == IF ids = {} THEN 0 ELSE CHOOSE i \in ids : \A j \in ids : j <= i

\* POST /rings.
manage_rings ==
    /\ \E r \in AdminRingIds :
        /\ r = MaxId(rings) + 1
        /\ rings' = rings \cup {r}
    /\ resp' = Response("manage_rings", 201, NoRequest)
    /\ UNCHANGED <<divisions, competitors, matches, reqs>>

\* POST /ui/divisions.
ui_add_division ==
    /\ \E d \in AdminDivIds :
        /\ d = MaxId(divisions) + 1
        /\ divisions' = divisions \cup {d}
    /\ resp' = Response("ui_add_division", 200, NoRequest)
    /\ UNCHANGED <<competitors, matches, rings, reqs>>

\* The rows of a table up to its largest id.
RECURSIVE Trim(_, _)
Trim(table, none) ==
    IF table # <<>> /\ table[Len(table)] = none
    THEN Trim(SubSeq(table, 1, Len(table) - 1), none)
    ELSE table

\* The session of a request: the tables as it sees them, and the tables it
\* has issued a delete on, in order.
Session == [divisions |-> divisions, competitors |-> competitors,
            matches |-> matches, deleted |-> <<>>]

delete_no_matches(session, div_id) ==
    [session EXCEPT !.deleted = Append(@, "match")]

\* Match.query.filter_by(division_id=div_id).delete()
delete_matches(session, div_id) ==
    [session EXCEPT
        !.matches = Trim([i \in 1..Len(@) |->
                            IF @[i].division_id = div_id THEN NoMatch ELSE @[i]],
                         NoMatch),
        !.deleted = Append(@, "match")]

\* Competitor.query.filter_by(division_id=div_id).delete()
delete_competitors(session, div_id) ==
    [session EXCEPT
        !.competitors = Trim([i \in 1..Len(@) |->
                                IF @[i].division_id = div_id THEN NoCompetitor ELSE @[i]],
                             NoCompetitor),
        !.deleted = Append(@, "competitor")]

\* db.session.delete(div)
delete_division(session, div_id) ==
    [session EXCEPT !.divisions = @ \ {div_id},
                    !.deleted = Append(@, "division")]

\* The session's deletes reach the tables.
CommitDeletes(session, op, code, request) ==
    /\ divisions' = session.divisions
    /\ competitors' = session.competitors
    /\ matches' = session.matches
    /\ resp' = Response(op, code, request \o session.deleted)
    /\ UNCHANGED <<rings, reqs>>

\* DELETE /ui/divisions/<div_id>.
ui_delete_division(div_id) ==
    IF div_id \notin divisions
    THEN Abort(matches, "ui_delete_division", 404, <<div_id>>)
    ELSE CommitDeletes(
             delete_division(
                 delete_competitors(delete_matches(Session, div_id), div_id),
                 div_id),
             "ui_delete_division", 200, <<div_id>>)

\* The division has rows that refer to it.
HasChildren(div_id) ==
    \/ \E c \in 1..Len(competitors) : competitors[c].division_id = div_id
    \/ \E m \in 1..Len(matches) : matches[m].division_id = div_id

\* DELETE /divisions/<div_id>.  Only the division is deleted; the rows that
\* refer to it would be left with no division, which their division_id column
\* (nullable=False) refuses: the commit raises and nothing is stored.
edit_division_delete(div_id) ==
    IF div_id \notin divisions
    THEN Abort(matches, "edit_division", 404, <<div_id>>)
    ELSE IF HasChildren(div_id)
    THEN Abort(matches, "edit_division", 500, <<div_id>>)
    ELSE CommitDeletes(delete_division(Session, div_id),
                       "edit_division", 200, <<div_id>>)

\* PUT /divisions/<div_id>: the name, which no other handler reads, is set.
edit_division_put(div_id) ==
    IF div_id \notin divisions
    THEN Abort(matches, "edit_division_put", 404, <<div_id>>)
    ELSE Commit(matches, "edit_division_put", 200, <<div_id>>)

\* --------------------------------------------------------- bracket building
\* math.ceil(math.log2(n)) for n >= 1: the least k with 2^k >= n.
RECURSIVE CeilLog2From(_, _)
CeilLog2From(n, k) == IF 2 ^ k >= n THEN k ELSE CeilLog2From(n, k + 1)

FloorLog2Plus1(n) == IF 2 ^ CeilLog2From(n, 0) = n THEN CeilLog2From(n, 0) + 1
                     ELSE CeilLog2From(n, 0)

CeilLog2(n) == CeilLog2From(n, 0)

DoubleNextPower(num_comp) == 2 ^ (CeilLog2(num_comp) + 1)

next_power_of_2(num_comp) == 2 ^ CeilLog2(num_comp)

AtMostTwo(num_comp) == num_comp < 3

InsufficientCompetitors(num_comp) == num_comp < 2

\* The deal: competitor i (from 0) goes to pairing i % num_first_round_matches,
\* slot i // num_first_round_matches.
RECURSIVE Deal(_, _, _, _)
Deal(pairings, shuffled, i, num_first_round_matches) ==
    IF i >= Len(shuffled) THEN pairings
    ELSE LET slot == i \div num_first_round_matches
             match_index == i % num_first_round_matches
         IN  Deal([pairings EXCEPT ![match_index + 1][slot + 1] = shuffled[i + 1]],
                  shuffled, i + 1, num_first_round_matches)

RECURSIVE DealAdjacent(_, _, _)
DealAdjacent(pairings, shuffled, i) ==
    IF i >= Len(shuffled) THEN pairings
    ELSE DealAdjacent([pairings EXCEPT ![(i \div 2) + 1][(i % 2) + 1] = shuffled[i + 1]],
                      shuffled, i + 1)

match_pairings_adjacent(shuffled, num_first_round_matches) ==
    DealAdjacent([k \in 1..num_first_round_matches |-> <<NULL, NULL>>], shuffled, 0)

RECURSIVE DealBackInSecondPass(_, _, _, _)
DealBackInSecondPass(pairings, shuffled, i, num_first_round_matches) ==
    IF i >= Len(shuffled) THEN pairings
    ELSE LET slot == i \div num_first_round_matches
             match_index == IF slot = 0 THEN i % num_first_round_matches
                            ELSE num_first_round_matches - 1
                                     - (i % num_first_round_matches)
         IN  DealBackInSecondPass(
                 [pairings EXCEPT ![match_index + 1][slot + 1] = shuffled[i + 1]],
                 shuffled, i + 1, num_first_round_matches)

match_pairings_back_in_second_pass(shuffled, num_first_round_matches) ==
    DealBackInSecondPass([k \in 1..num_first_round_matches |-> <<NULL, NULL>>],
                         shuffled, 0, num_first_round_matches)

match_pairings_first_pass(shuffled, num_first_round_matches) ==
    Deal([k \in 1..num_first_round_matches |-> <<NULL, NULL>>],
         SubSeq(shuffled, 1, num_first_round_matches), 0, num_first_round_matches)

match_pairings(shuffled, num_first_round_matches) ==
    Deal([k \in 1..num_first_round_matches |-> <<NULL, NULL>>],
         shuffled, 0, num_first_round_matches)

Round1MatchByeIfFirst(div_id, pair) ==
    LET comp1 == pair[1]
        comp2 == pair[2]
    IN  IF ~Falsy(comp1) THEN Match(div_id, comp1, comp2, comp1, Bye, "Round 1")
        ELSE Match(div_id, comp1, comp2, NULL, Pending, "Round 1")

\* One round-1 match; a pairing with one competitor is a bye, won at once.
Round1Match(div_id, pair) ==
    LET comp1 == pair[1]
        comp2 == pair[2]
    IN  IF ~Falsy(comp1) /\ Falsy(comp2)
            THEN Match(div_id, comp1, comp2, comp1, Bye, "Round 1")
        ELSE IF ~Falsy(comp2) /\ Falsy(comp1)
            THEN Match(div_id, comp1, comp2, comp2, Bye, "Round 1")
        ELSE Match(div_id, comp1, comp2, NULL, Pending, "Round 1")

RoundNameByNewRound(len_current, round_num) ==
    IF len_current = 2 THEN "Semi-Final"
    ELSE IF len_current = 4 THEN "Quarter-Final"
    ELSE "Round " \o ToString(round_num)

\* The name of the round built from a round of len_current matches.
RoundName(len_current, round_num) ==
    IF len_current = 2 THEN "Final"
    ELSE IF len_current = 4 THEN "Semi-Final"
    ELSE IF len_current = 8 THEN "Quarter-Final"
    ELSE "Round " \o ToString(round_num)

NoByePush(new_match, prev_match1, prev_match2) == new_match

PushByeWinnersSwapped(new_match, prev_match1, prev_match2) ==
    [new_match EXCEPT
        !.competitor1_id = IF ~Falsy(prev_match2.winner_id)
                           THEN prev_match2.winner_id ELSE @,
        !.competitor2_id = IF ~Falsy(prev_match1.winner_id)
                           THEN prev_match1.winner_id ELSE @]

\* "Push forward winners of byes immediately".
PushByeWinners(new_match, prev_match1, prev_match2) ==
    [new_match EXCEPT
        !.competitor1_id = IF ~Falsy(prev_match1.winner_id)
                           THEN prev_match1.winner_id ELSE @,
        !.competitor2_id = IF ~Falsy(prev_match2.winner_id)
                           THEN prev_match2.winner_id ELSE @]

LinkFirstOnly(all, prev1, prev2, new_id) ==
    [all EXCEPT ![prev1].next_match_id = new_id]

\* "Link the previous matches to this new one".
LinkPrevious(all, prev1, prev2, new_id) ==
    [all EXCEPT ![prev1].next_match_id = new_id,
                ![prev2].next_match_id = new_id]

\* One pass of the for loop over the pairs of the current round: `all` is the
\* Match table of the session, `current` the ids of the current round.
RECURSIVE BuildRound(_, _, _, _, _, _)
BuildRound(all, current, i, next_round, div_id, round_num) ==
    IF i >= Len(current) THEN [all |-> all, next_round |-> next_round]
    ELSE LET prev1 == current[i + 1]
             prev2 == current[i + 2]
             new_id == Len(all) + 1
             new_match == PushByeWinners(
                              Match(div_id, NULL, NULL, NULL, Pending,
                                    RoundName(Len(current), round_num)),
                              all[prev1], all[prev2])
             linked == LinkPrevious(all, prev1, prev2, new_id)
         IN  BuildRound(Append(linked, new_match), current, i + 2,
                        Append(next_round, new_id), div_id, round_num)

\* The while loop: rounds are built until one match is left.
RECURSIVE BuildRounds(_, _, _, _)
BuildRounds(all, current, div_id, round_num) ==
    IF Len(current) > 1
    THEN LET r == BuildRound(all, current, 0, <<>>, div_id, round_num)
         IN  BuildRounds(r.all, r.next_round, div_id, round_num + 1)
    ELSE all

GeneratedBracketFinalAlone(div_id, shuffled) ==
    LET num_first_round_matches == next_power_of_2(Len(shuffled)) \div 2
        pairings == match_pairings(shuffled, num_first_round_matches)
        round1 == [k \in 1..num_first_round_matches |->
                     IF num_first_round_matches = 1
                     THEN [Round1Match(div_id, pairings[k]) EXCEPT !.round_name = "Final"]
                     ELSE Round1Match(div_id, pairings[k])]
        first_ids == [k \in 1..num_first_round_matches |-> Len(matches) + k]
    IN  BuildRounds(matches \o round1, first_ids, div_id, 2)

\* The Match table after a bracket is built for the shuffled competitors.
GeneratedBracket(div_id, shuffled) ==
    LET num_first_round_matches == next_power_of_2(Len(shuffled)) \div 2
        pairings == match_pairings(shuffled, num_first_round_matches)
        round1 == [k \in 1..num_first_round_matches |-> Round1Match(div_id, pairings[k])]
        first_ids == [k \in 1..num_first_round_matches |-> Len(matches) + k]
    IN  BuildRounds(matches \o round1, first_ids, div_id, 2)

\* random.shuffle(competitors): any order of the list.
Shuffles(num_comp) == Permutations(1..num_comp)

\* The handler, its shuffle taken among `shuffles`.  The answer keeps the
\* shuffled list.
generate_bracket_shuffling(div_id, shuffles) ==
    LET comps == CompetitorsOf(div_id)
        num_comp == Len(comps)
    IN  IF InsufficientCompetitors(num_comp)
        THEN Abort(matches, "generate_bracket", 400, NoRequest)
        ELSE \E perm \in shuffles :
                LET shuffled == [i \in 1..num_comp |-> comps[perm[i]]]
                IN  Commit(GeneratedBracket(div_id, shuffled),
                           "generate_bracket", 200, shuffled)

\* POST /divisions/<div_id>/generate_bracket.
generate_bracket(div_id) ==
    generate_bracket_shuffling(div_id, Shuffles(Len(CompetitorsOf(div_id))))

\* ------------------------------------------------------------------ results
AdvanceIfAbsent(session, next_match_id, winner_id) ==
    LET next_match == session[next_match_id]
    IN  IF winner_id \in {next_match.competitor1_id, next_match.competitor2_id}
            THEN session
        ELSE IF Falsy(next_match.competitor1_id)
            THEN [session EXCEPT ![next_match_id].competitor1_id = winner_id]
        ELSE IF Falsy(next_match.competitor2_id)
            THEN [session EXCEPT ![next_match_id].competitor2_id = winner_id]
        ELSE session

AdvanceOverwritingFirst(session, next_match_id, winner_id) ==
    [session EXCEPT ![next_match_id].competitor1_id = winner_id]

\* "Assign the winner to the next match's open slot": slot 1 if it is empty,
\* else slot 2 if that is empty, else nowhere.  The same lines stand in
\* record_result and in ui_record_result.
Advance(session, next_match_id, winner_id) ==
    LET next_match == session[next_match_id]
    IN  IF Falsy(next_match.competitor1_id)
            THEN [session EXCEPT ![next_match_id].competitor1_id = winner_id]
        ELSE IF Falsy(next_match.competitor2_id)
            THEN [session EXCEPT ![next_match_id].competitor2_id = winner_id]
        ELSE session

WithWinnerStartingNext(session, match_id, winner_id) ==
    LET won == [session EXCEPT ![match_id].winner_id = winner_id]
    IN  IF ~Falsy(won[match_id].next_match_id)
        THEN [Advance(won, won[match_id].next_match_id, winner_id)
                 EXCEPT ![won[match_id].next_match_id].status = InProgress]
        ELSE won

\* The session once the winner is stored and advanced.
WithWinner(session, match_id, winner_id) ==
    LET won == [session EXCEPT ![match_id].winner_id = winner_id]
    IN  IF ~Falsy(won[match_id].next_match_id)
        THEN Advance(won, won[match_id].next_match_id, winner_id)
        ELSE won

\* POST /matches/<match_id>/result (JSON).
record_result(match_id, status, winner_id) ==
    LET request == <<match_id, status, winner_id>>
    IN  IF ~MatchExists(match_id)
        THEN Abort(matches, "record_result", 404, request)
        ELSE LET session == [matches EXCEPT ![match_id].status = status]
             IN  IF status \in {Completed, Disqualification}
                 THEN IF Falsy(winner_id)
                      THEN Abort(session, "record_result", 400, request)
                      ELSE Commit(WithWinner(session, match_id, winner_id),
                                  "record_result", 200, request)
                 \* No return for any other status: the view returns None,
                 \* which Flask answers with an internal error, and nothing
                 \* was committed.
                 ELSE Abort(session, "record_result", 500, request)

\* POST /ui/matches/<match_id>/result (form).
ui_record_result(match_id, status, winner_id) ==
    LET request == <<match_id, status, winner_id>>
    IN  IF ~MatchExists(match_id)
        THEN Abort(matches, "ui_record_result", 404, request)
        ELSE LET session == [matches EXCEPT ![match_id].status = status]
             IN  IF status = InProgress
                 THEN Commit(session, "ui_record_result", 200, request)
                 ELSE IF status \in {Completed, Disqualification}
                 THEN IF Falsy(winner_id)
                      THEN Abort(session, "ui_record_result", 400, request)
                      \* After the commit the winner's name is read: a winner
                      \* id that is no competitor's raises there.
                      ELSE Commit(WithWinner(session, match_id, winner_id),
                                  "ui_record_result",
                                  IF winner_id \in 1..Len(competitors) THEN 200 ELSE 500,
                                  request)
                 ELSE Abort(session, "ui_record_result", 500, request)

\* ------------------------------------------------ results, request by request
\* record_result as the steps of one request among others.  Each request has
\* its own session: the rows it has read are its own copies, and its commit
\* writes the columns it has assigned, not the rows.
\*
\* The request reads its match, assigns status and winner, and reads the next
\* match (Match.query.get): a Completed or Disqualification result with a
\* winner, on a match that exists.
record_result_read(match_id, status, winner_id) ==
    /\ MatchExists(match_id)
    /\ status \in {Completed, Disqualification}
    /\ ~Falsy(winner_id)
    /\ reqs' = Append(reqs, [match_id |-> match_id, status |-> status,
                             winner_id |-> winner_id,
                             next_match_id |-> matches[match_id].next_match_id,
                             next_match |->
                                 IF ~Falsy(matches[match_id].next_match_id)
                                 THEN matches[matches[match_id].next_match_id]
                                 ELSE NoMatch,
                             pc |-> "read"])
    /\ UNCHANGED <<divisions, competitors, matches, rings, resp>>

\* The columns the request assigned, written at its commit: the slot is
\* chosen on the copy of the next match the request has read.
Written(table, req) ==
    LET won == [table EXCEPT ![req.match_id].status = req.status,
                             ![req.match_id].winner_id = req.winner_id]
    IN  IF Falsy(req.next_match_id) THEN won
        ELSE IF Falsy(req.next_match.competitor1_id)
            THEN [won EXCEPT ![req.next_match_id].competitor1_id = req.winner_id]
        ELSE IF Falsy(req.next_match.competitor2_id)
            THEN [won EXCEPT ![req.next_match_id].competitor2_id = req.winner_id]
        ELSE won

\* The request assigns the slot and commits.
record_result_commit(i) ==
    /\ reqs[i].pc = "read"
    /\ matches' = Written(matches, reqs[i])
    /\ reqs' = [reqs EXCEPT ![i].pc = "done"]
    /\ resp' = Response("record_result", 200,
                        <<reqs[i].match_id, reqs[i].status, reqs[i].winner_id>>)
    /\ UNCHANGED <<divisions, competitors, rings>>

\* PUT /matches/<match_id>/schedule (form).  The answer formats
\* int(ring_sequence), which raises when the sequence is missing.
SequenceTimesHundred(ring_id, ring_sequence) == ring_id + (ring_sequence * 100)

match_number(ring_id, ring_sequence) == (ring_id * 100) + ring_sequence

schedule_match_htmx(match_id, ring_id, ring_sequence) ==
    LET request == <<match_id, ring_id, ring_sequence>>
    IN  IF ~MatchExists(match_id)
        THEN Abort(matches, "schedule_match_htmx", 404, request)
        ELSE IF ~Falsy(ring_id) /\ ~Falsy(ring_sequence)
             THEN Commit([matches EXCEPT ![match_id].ring_id = ring_id,
                                         ![match_id].match_number =
                                             match_number(ring_id, ring_sequence)],
                         "schedule_match_htmx", 200, request)
             ELSE Abort(matches, "schedule_match_htmx",
                        IF Falsy(ring_sequence) THEN 500 ELSE 200, request)

\* ------------------------------------------------------------ specifications
\* The ids and winners a request may name: every row's, none, and one that
\* is no row's.
MatchIdInputs == 1..(Len(matches) + 1)
WinnerInputs == 0..(Len(competitors) + 1)

\* The bracket of division div_id fits a Match table of `cap` rows.
Fits(div_id, cap) ==
    LET num_comp == Len(CompetitorsOf(div_id))
    IN  \/ num_comp < 2
        \/ Len(matches) + next_power_of_2(num_comp) - 1 <= cap

\* The requests of one client session on the store, in any order.  Entries
\* are posted to a created division until its first bracket is built.  A
\* request that names a match no row has is tried once, and a winner is varied
\* only with a status that reads it: no winner or a competitor of the match,
\* and with Completed also an id no competitor has.
StatusesFor(m) == IF m \in 1..Len(matches) THEN StatusInputs ELSE {Completed}

WinnersFor(m, s) ==
    IF m \in 1..Len(matches) /\ s \in {Completed, Disqualification}
    THEN {NULL, matches[m].competitor1_id, matches[m].competitor2_id}
         \cup (IF s = Completed THEN {Len(competitors) + 1} ELSE {})
    ELSE {NULL}

Next ==
    \/ manage_divisions /\ UNCHANGED nOps
    \/ \E d \in divisions, k \in 1..MaxComp :
        /\ matches = <<>>
        /\ Len(competitors) + k <= MaxComp
        /\ ui_add_competitors(d, k)
        /\ UNCHANGED nOps
    \/ \E d \in DivIds :
        /\ Fits(d, MaxMatches)
        /\ generate_bracket(d)
        /\ UNCHANGED nOps
    \/ /\ nOps < MaxOps
       /\ nOps' = nOps + 1
       /\ \E m \in MatchIdInputs : \E s \in StatusesFor(m) : \E w \in WinnersFor(m, s) :
            record_result(m, s, w)
    \/ /\ nOps < MaxOps
       /\ nOps' = nOps + 1
       /\ \E m \in MatchIdInputs : \E s \in StatusesFor(m) : \E w \in WinnersFor(m, s) :
            ui_record_result(m, s, w)
    \/ /\ nOps < MaxOps
       /\ nOps' = nOps + 1
       /\ \E m \in MatchIdInputs, r \in AdminRingIds \cup {NULL},
             q \in RingSequences \cup {NULL} :
            schedule_match_htmx(m, r, q)

Spec == Init /\ [][Next]_vars

\* Regular play: the entries are made in an existing division, the bracket is
\* built once, and a result is recorded on a match that has both competitors
\* and no result yet, and names one of the two as the winner.
Ready(match_id) ==
    /\ match_id \in 1..Len(matches)
    /\ matches[match_id].status = Pending
    /\ ~Falsy(matches[match_id].competitor1_id)
    /\ ~Falsy(matches[match_id].competitor2_id)

Decides(status) == status \in {Completed, Disqualification}

Occupant(match_id, winner_id) ==
    winner_id \in {matches[match_id].competitor1_id,
                   matches[match_id].competitor2_id}

NextPlay ==
    \/ manage_divisions /\ UNCHANGED nOps
    \/ \E d \in divisions, k \in 1..PlayMaxComp :
        /\ matches = <<>>
        /\ Len(competitors) + k <= PlayMaxComp
        /\ ui_add_competitors(d, k)
        /\ UNCHANGED nOps
    \/ \E d \in divisions :
        /\ matches = <<>>
        /\ generate_bracket(d)
        /\ UNCHANGED nOps
    \/ \E m \in MatchIdInputs :
        /\ Ready(m)
        /\ \E s \in StatusInputs :
            /\ Decides(s)
            /\ \E w \in WinnerInputs :
                /\ Occupant(m, w)
                /\ record_result(m, s, w)
        /\ UNCHANGED nOps
    \/ \E m \in MatchIdInputs :
        /\ Ready(m)
        /\ \E s \in StatusInputs :
            /\ Decides(s)
            /\ \E w \in WinnerInputs :
                /\ Occupant(m, w)
                /\ ui_record_result(m, s, w)
        /\ UNCHANGED nOps

SpecPlay == Init /\ [][NextPlay]_vars

\* Bracket building alone: entries, then one bracket.
NextGen ==
    \/ manage_divisions /\ UNCHANGED nOps
    \/ \E d \in divisions, k \in 1..GenMaxComp :
        /\ matches = <<>>
        /\ Len(competitors) + k <= GenMaxComp
        /\ ui_add_competitors(d, k)
        /\ UNCHANGED nOps
    \/ \E d \in DivIds :
        /\ matches = <<>>
        /\ generate_bracket(d)
        /\ UNCHANGED nOps

SpecGen == Init /\ [][NextGen]_vars

\* The larger brackets: entries, then one bracket, the shuffle leaving the
\* list in one of its rotations or reversed rotations.
Rotations(num_comp) ==
    {[i \in 1..num_comp |-> ((i - 1 + r) % num_comp) + 1] : r \in 0..(num_comp - 1)}
    \cup {[i \in 1..num_comp |-> ((num_comp - i + r) % num_comp) + 1] : r \in 0..(num_comp - 1)}

generate_bracket_rotating(div_id) ==
    generate_bracket_shuffling(div_id, Rotations(Len(CompetitorsOf(div_id))))

NextNames ==
    \/ manage_divisions /\ UNCHANGED nOps
    \/ \E d \in divisions, k \in 1..NameMaxComp :
        /\ matches = <<>>
        /\ Len(competitors) + k <= NameMaxComp
        /\ ui_add_competitors(d, k)
        /\ UNCHANGED nOps
    \/ \E d \in DivIds :
        /\ matches = <<>>
        /\ generate_bracket_rotating(d)
        /\ UNCHANGED nOps

SpecNames == Init /\ [][NextNames]_vars

\* The administration: rings and divisions are created, entries posted,
\* brackets built, matches scheduled, divisions deleted.
\* Entries are posted two at a time, and a bracket is built for a division
\* that has none.
EntryCounts == {2}

HasBracket(div_id) == \E m \in 1..Len(matches) : matches[m].division_id = div_id

NextAdmin ==
    \/ manage_rings /\ UNCHANGED nOps
    \/ ui_add_division /\ UNCHANGED nOps
    \/ \E d \in divisions, k \in EntryCounts :
        /\ Len(competitors) + k <= AdminMaxComp
        /\ ui_add_competitors(d, k)
        /\ UNCHANGED nOps
    \/ \E d \in AdminDivIds :
        /\ ~HasBracket(d)
        /\ generate_bracket(d)
        /\ UNCHANGED nOps
    \/ \E d \in AdminDivIds : ui_delete_division(d) /\ UNCHANGED nOps
    \/ \E d \in AdminDivIds : edit_division_delete(d) /\ UNCHANGED nOps
    \/ \E d \in AdminDivIds : edit_division_put(d) /\ UNCHANGED nOps
    \/ /\ nOps < AdminMaxOps
       /\ nOps' = nOps + 1
       /\ \E m \in MatchIdInputs, r \in RingIds \cup {NULL},
             q \in SequenceInputs \cup {NULL} :
            schedule_match_htmx(m, r, q)

SpecAdmin == Init /\ [][NextAdmin]_vars

\* Concurrent result recording: after the entries and the one bracket, up to
\* MaxRequests results are recorded, each on a ready match no other request is
\* on, for one of its two competitors, the steps of the requests interleaved.
InFlight(match_id) == \E i \in 1..Len(reqs) : reqs[i].match_id = match_id

NextRace ==
    \/ manage_divisions /\ UNCHANGED nOps
    \/ \E d \in divisions, k \in 1..RaceMaxComp :
        /\ matches = <<>>
        /\ Len(competitors) + k <= RaceMaxComp
        /\ ui_add_competitors(d, k)
        /\ UNCHANGED nOps
    \/ \E d \in divisions :
        /\ matches = <<>>
        /\ generate_bracket(d)
        /\ UNCHANGED nOps
    \/ \E m \in MatchIdInputs :
        /\ Len(reqs) < MaxRequests
        /\ Ready(m) /\ ~InFlight(m)
        /\ \E s \in StatusInputs :
            /\ Decides(s)
            /\ \E w \in WinnerInputs :
                /\ Occupant(m, w)
                /\ record_result_read(m, s, w)
        /\ UNCHANGED nOps
    \/ \E i \in 1..Len(reqs) : record_result_commit(i) /\ UNCHANGED nOps

SpecRace == Init /\ [][NextRace]_vars

\* The brackets of every size: division d gets d + 1 competitors and then its
\* bracket, one division after the other, so that brackets for 2, 3, ... up to
\* SweepMaxComp competitors stand side by side.  (Neither handler looks the
\* division up.)  The shuffle leaves the list in one of its rotations or
\* reversed rotations.
SweepDivIds == 1..(SweepMaxComp - 1)

NextSweep ==
    \/ \E d \in SweepDivIds :
        /\ CompetitorsOf(d) = <<>>
        /\ \A e \in 1..(d - 1) : HasBracket(e)
        /\ ui_add_competitors(d, d + 1)
        /\ UNCHANGED nOps
    \/ \E d \in SweepDivIds :
        /\ CompetitorsOf(d) # <<>>
        /\ ~HasBracket(d)
        /\ generate_bracket_rotating(d)
        /\ UNCHANGED nOps

SpecSweep == Init /\ [][NextSweep]_vars

\* ------------------------------------------------------------------- claims
MatchIds == 1..Len(matches)
Decided == {Completed, Disqualification}
Slots(row) == {row.competitor1_id, row.competitor2_id} \ {NULL}
NumOccupied(row) == (IF row.competitor1_id # NULL THEN 1 ELSE 0)
                    + (IF row.competitor2_id # NULL THEN 1 ELSE 0)
\* The matches that feed match x.
Preds(x) == {p \in MatchIds : matches[p].next_match_id = x}
IsResultOp(op) == op \in {"record_result", "ui_record_result"}

\* C1: a Completed or Disqualification result with winner w on match m stores
\* w as m's winner; if m has a next match, w goes into its slot 1 when that is
\* empty, else into its slot 2 when that is empty, and when both are occupied
\* the next match is left as it is; the request is answered with success
\* (for a winner that is a competitor).
C1_RecordAdvances ==
    [][(/\ IsResultOp(resp'.op)
        /\ resp'.request[1] \in 1..Len(matches)
        /\ resp'.request[2] \in Decided
        /\ resp'.request[3] # NULL) =>
          LET m == resp'.request[1]
              w == resp'.request[3]
              nx == matches[m].next_match_id
          IN  /\ Len(matches') = Len(matches)
              /\ matches'[m].winner_id = w
              /\ (w \in 1..Len(competitors) => resp'.code = 200)
              /\ nx # NULL =>
                   LET a == matches[nx].competitor1_id
                       b == matches[nx].competitor2_id
                   IN  /\ a = NULL =>
                             /\ matches'[nx].competitor1_id = w
                             /\ matches'[nx].competitor2_id = b
                       /\ (a # NULL /\ b = NULL) =>
                             /\ matches'[nx].competitor1_id = a
                             /\ matches'[nx].competitor2_id = w
                       /\ (a # NULL /\ b # NULL) => matches'[nx] = matches[nx]
      ]_vars

\* A result was answered with success and its winner, an occupant of the
\* match, is in neither slot of the full next match: it was not placed.
C1_Witness ==
    /\ IsResultOp(resp.op) /\ resp.code = 200
    /\ \E m \in MatchIds :
        /\ matches[m].status \in Decided
        /\ matches[m].winner_id \in Slots(matches[m])
        /\ matches[m].next_match_id # NULL
        /\ NumOccupied(matches[matches[m].next_match_id]) = 2
        /\ matches[m].winner_id \notin Slots(matches[matches[m].next_match_id])

\* A winner was placed in slot 2 behind an occupied slot 1.
C1_WitnessSecondSlot ==
    \E m \in MatchIds :
        /\ matches[m].status \in Decided
        /\ matches[m].next_match_id # NULL
        /\ matches[m].round_name = "Round 1"
        /\ matches[matches[m].next_match_id].competitor2_id = matches[m].winner_id
        /\ \E p \in Preds(matches[m].next_match_id) :
            /\ p # m
            /\ matches[p].status \in Decided
            /\ matches[matches[m].next_match_id].competitor1_id = matches[p].winner_id

\* C2: in regular play, once both matches that feed a match above round 1 are
\* decided (so, at the latest, when every match is), that match has no empty
\* slot and its two slots hold the two winners, each once.
C2_WinnersMeet ==
    \A x \in MatchIds :
        LET P == Preds(x)
        IN  (P # {} /\ \A p \in P : matches[p].winner_id # NULL) =>
              /\ Cardinality(P) = 2
              /\ NumOccupied(matches[x]) = 2
              /\ matches[x].competitor1_id # matches[x].competitor2_id
              /\ Slots(matches[x]) = {matches[p].winner_id : p \in P}

\* Three competitors: the bye and the played round-1 match are done, and the
\* Final holds both winners and is decided too.
C2_Witness ==
    /\ Len(matches) = 3
    /\ \E m \in MatchIds : matches[m].status = Bye
    /\ \A m \in MatchIds : matches[m].status \in Decided \cup {Bye}
    /\ \E x \in MatchIds : matches[x].round_name = "Final" /\ NumOccupied(matches[x]) = 2

\* C3: a match with status Completed (Bye) has exactly one occupied slot and
\* its winner is that slot's competitor; and a match gets that status only as
\* a new row of a bracket generation, never from a request on a match.
ByeShape ==
    \A m \in MatchIds :
        matches[m].status = Bye =>
            /\ NumOccupied(matches[m]) = 1
            /\ {matches[m].winner_id} = Slots(matches[m])

ByeOnlyBuilt ==
    \A m \in 1..Len(matches') :
        (matches'[m].status = Bye /\ (m > Len(matches) \/ matches[m].status # Bye)) =>
            /\ m > Len(matches)
            /\ resp'.op = "generate_bracket"

C3_ByeByGenerationOnly == []ByeShape /\ [][ByeOnlyBuilt]_vars

\* A bye stands in the table after a result request that carried a status the
\* handlers do not store.
C3_Witness ==
    /\ IsResultOp(resp.op) /\ resp.code = 500
    /\ resp.request[2] = Bye
    /\ \E m \in MatchIds : matches[m].status = Bye

\* C4: a winner, once stored, stays: no step changes a match's winner that
\* was set before it.
C4_WinnerImmutable ==
    [][\A m \in MatchIds :
        matches[m].winner_id # NULL =>
            /\ m \in 1..Len(matches')
            /\ matches'[m].winner_id = matches[m].winner_id
      ]_vars

\* C5: a stored status only moves forward, Pending, then In Progress, then
\* Completed or Disqualification; a match that is Completed, Disqualification
\* or Completed (Bye) keeps its status.
StatusRank(status) ==
    IF status = Pending THEN 0 ELSE IF status = InProgress THEN 1 ELSE 2

C5_StatusForwardOnly ==
    [][\A m \in MatchIds :
        (m \in 1..Len(matches') /\ matches'[m].status # matches[m].status) =>
            /\ StatusRank(matches[m].status) < 2
            /\ StatusRank(matches'[m].status) > StatusRank(matches[m].status)
      ]_vars

\* C6: a match that is Completed or Disqualification has a winner, and the
\* winner is in one of its two slots.
C6_WinnerIsOccupant ==
    \A m \in MatchIds :
        matches[m].status \in Decided =>
            /\ matches[m].winner_id # NULL
            /\ matches[m].winner_id \in Slots(matches[m])

\* C7: a Completed or Disqualification result without a winner, on either
\* endpoint, is answered 400 and changes no row: the match, its next match and
\* every other row are as before.
C7_MissingWinner ==
    [][(/\ IsResultOp(resp'.op)
        /\ resp'.request[1] \in 1..Len(matches)
        /\ resp'.request[2] \in Decided
        /\ resp'.request[3] = NULL) =>
            /\ resp'.code = 400
            /\ matches' = matches
            /\ competitors' = competitors
            /\ divisions' = divisions
      ]_vars

\* A winner was left out of a result for a match of a bracket with a next
\* round, on a match whose stored status is not the one the request carried.
C7_Witness ==
    /\ IsResultOp(resp.op) /\ resp.code = 400
    /\ resp.request[3] = NULL
    /\ resp.request[1] \in MatchIds
    /\ matches[resp.request[1]].next_match_id # NULL
    /\ matches[resp.request[1]].status # resp.request[2]

\* C8: bracket generation for a division is refused with 400 exactly when the
\* division has fewer than 2 competitors, and a refused generation changes
\* nothing: no match is created, no row is changed.
C8_TooFewCompetitors ==
    [][resp'.op = "generate_bracket" =>
        /\ resp'.code \in {200, 400}
        /\ (\E d \in DivIds : Len(CompetitorsOf(d)) >= 2) => resp'.code = 200
        /\ (\A d \in DivIds : Len(CompetitorsOf(d)) < 2) =>
            /\ resp'.code = 400
            /\ matches' = matches
            /\ competitors' = competitors
            /\ divisions' = divisions
      ]_vars

\* Generation was refused for a division with one competitor.
C8_Witness ==
    /\ resp.op = "generate_bracket" /\ resp.code = 400
    /\ Len(competitors) = 1
    /\ matches = <<>>

\* The smallest power of two that is at least n.
Pow2s == {1, 2, 4, 8, 16, 32, 64, 128}
BracketSize(n) == CHOOSE b \in Pow2s : b >= n /\ \A c \in Pow2s : c >= n => b <= c

\* The number of competitors entered in division d.
NumEntered(d) ==
    Cardinality({c \in 1..Len(competitors) : competitors[c].division_id = d})

\* The rows a step added to the Match table.
NewIds == (Len(matches) + 1)..Len(matches')
NewRound1 == {m \in NewIds : matches'[m].round_name = "Round 1"}

\* C9: a generation for N >= 2 competitors creates BracketSize(N) - 1 matches,
\* N - 1 of them not byes: 1 match for N = 2, 3 for N = 3 and N = 4, 7 for N = 5.
C9_MatchCount ==
    [][(resp'.op = "generate_bracket" /\ resp'.code = 200) =>
        LET n == NumEntered(matches'[Len(matches')].division_id)
        IN  /\ n >= 2
            /\ Cardinality(NewIds) = BracketSize(n) - 1
            /\ Cardinality({m \in NewIds : matches'[m].status # Bye}) = n - 1
            /\ n = 2 => Cardinality(NewIds) = 1
            /\ n = 3 => Cardinality(NewIds) = 3
            /\ n = 4 => Cardinality(NewIds) = 3
            /\ n = 5 => Cardinality(NewIds) = 7
      ]_vars

\* A bracket of 7 matches stands for 5 competitors.
C9_Witness ==
    /\ resp.op = "generate_bracket" /\ resp.code = 200
    /\ Len(competitors) = 5
    /\ Len(matches) = 7

\* C10: right after a generation for N competitors, BracketSize(N) - N of the
\* round-1 matches are byes, every other round-1 match has both slots occupied
\* and is Pending, and no round-1 match has both slots empty.
C10_Round1Byes ==
    [][(resp'.op = "generate_bracket" /\ resp'.code = 200) =>
        LET n == NumEntered(matches'[Len(matches')].division_id)
        IN  /\ Cardinality({m \in NewRound1 : matches'[m].status = Bye})
                 = BracketSize(n) - n
            /\ \A m \in NewRound1 :
                /\ NumOccupied(matches'[m]) >= 1
                /\ matches'[m].status # Bye =>
                     /\ NumOccupied(matches'[m]) = 2
                     /\ matches'[m].status = Pending
            /\ Cardinality(NewRound1) = BracketSize(n) \div 2
      ]_vars

\* Five competitors: three byes beside one full round-1 match.
C10_Witness ==
    /\ resp.op = "generate_bracket"
    /\ Cardinality({m \in MatchIds : matches[m].round_name = "Round 1"
                                      /\ matches[m].status = Bye}) = 3
    /\ \E m \in MatchIds : /\ matches[m].round_name = "Round 1"
                           /\ matches[m].status = Pending
                           /\ NumOccupied(matches[m]) = 2

\* The round of match x, counted from the matches no match feeds.
RECURSIVE RoundOf(_)
RoundOf(x) == IF Preds(x) = {} THEN 1
              ELSE 1 + RoundOf(CHOOSE p \in Preds(x) : TRUE)

\* The matches without a next match.
Finals == {m \in MatchIds : matches[m].next_match_id = NULL}

\* The number of competitors of the division whose bracket stands.
NumInBracket == NumEntered(matches[1].division_id)

\* C11: after one generation the matches are a perfect binary tree along
\* next_match: one match, the final, has no next match; every other match has
\* a next match one round later; every match above round 1 is the next match
\* of exactly two matches, both of the round before; no match feeds a round-1
\* match; and each round has half the matches of the round before.
C11_PerfectTree ==
    matches # <<>> =>
        LET round == [m \in MatchIds |-> RoundOf(m)]
            InRound(r) == {m \in MatchIds : round[m] = r}
        IN  /\ Cardinality(Finals) = 1
            /\ \A m \in MatchIds :
                /\ matches[m].next_match_id # NULL =>
                    /\ matches[m].next_match_id \in MatchIds
                    /\ round[matches[m].next_match_id] = round[m] + 1
                /\ matches[m].round_name = "Round 1" => Preds(m) = {}
                /\ matches[m].round_name # "Round 1" =>
                    /\ Cardinality(Preds(m)) = 2
                    /\ \A p \in Preds(m) : round[p] = round[m] - 1
            /\ Cardinality(InRound(1)) = BracketSize(NumInBracket) \div 2
            /\ \A r \in 2..Len(matches) :
                    Cardinality(InRound(r)) = Cardinality(InRound(r - 1)) \div 2

\* A bracket of three rounds stands: 4, 2 and 1 matches.
C11_Witness ==
    /\ Len(matches) = 7
    /\ Cardinality({m \in MatchIds : matches[m].round_name = "Round 1"}) = 4
    /\ \E x \in Finals : RoundOf(x) = 3

\* The number of next_match links from match x to a match without one.
RECURSIVE Hops(_)
Hops(x) == IF matches[x].next_match_id = NULL THEN 0
           ELSE 1 + Hops(matches[x].next_match_id)

RECURSIVE EndOf(_)
EndOf(x) == IF matches[x].next_match_id = NULL THEN x
            ELSE EndOf(matches[x].next_match_id)

Log2(b) == CHOOSE k \in 0..7 : 2 ^ k = b

\* C12 as stated: from every round-1 match the next_match links end at the
\* one final after exactly log2(bracketSize) steps.
C12_HopsLog2 ==
    matches # <<>> =>
        \A m \in MatchIds :
            matches[m].round_name = "Round 1" =>
                /\ Finals = {EndOf(m)}
                /\ Hops(m) = Log2(BracketSize(NumInBracket))

\* C12, amended: from every round-1 match the next_match links end at the one
\* final after exactly log2(bracketSize) - 1 steps (the bracket has
\* log2(bracketSize) rounds, so one link fewer).
C12_HopsLog2Minus1 ==
    matches # <<>> =>
        \A m \in MatchIds :
            matches[m].round_name = "Round 1" =>
                /\ Finals = {EndOf(m)}
                /\ Hops(m) = Log2(BracketSize(NumInBracket)) - 1

\* Five competitors or more: two links from a round-1 match to the final.
C12_Witness ==
    /\ Len(matches) = 7
    /\ NumInBracket = 5
    /\ \E m \in MatchIds : matches[m].round_name = "Round 1" /\ Hops(m) = 2

\* The names of the matches of the bracket, with how many matches bear each.
NumNamed(name) == Cardinality({m \in MatchIds : matches[m].round_name = name})

\* C13: in a bracket of size 4 or more the matches no match feeds are named
\* "Round 1"; above them the round of 1 match is "Final", the round of 2
\* matches "Semi-Final", the round of 4 matches "Quarter-Final", and a round
\* of more matches "Round k", k its round counted from the leaves.  N = 4
\* gives Round 1 x2 and Final; N = 8 Round 1 x4, Semi-Final x2, Final; N = 16
\* Round 1 x8, Quarter-Final x4, Semi-Final x2, Final.
C13_RoundNames ==
    (matches # <<>> /\ BracketSize(NumInBracket) >= 4) =>
        LET round == [m \in MatchIds |-> RoundOf(m)]
            size == [r \in 1..Len(matches) |->
                        Cardinality({m \in MatchIds : round[m] = r})]
        IN  /\ \A m \in MatchIds :
                matches[m].round_name =
                    IF round[m] = 1 THEN "Round 1"
                    ELSE IF size[round[m]] = 1 THEN "Final"
                    ELSE IF size[round[m]] = 2 THEN "Semi-Final"
                    ELSE IF size[round[m]] = 4 THEN "Quarter-Final"
                    ELSE "Round " \o ToString(round[m])
            /\ NumInBracket = 4 =>
                    /\ Len(matches) = 3
                    /\ NumNamed("Round 1") = 2 /\ NumNamed("Final") = 1
            /\ NumInBracket = 8 =>
                    /\ Len(matches) = 7
                    /\ NumNamed("Round 1") = 4 /\ NumNamed("Semi-Final") = 2
                    /\ NumNamed("Final") = 1
            /\ NumInBracket = 16 =>
                    /\ Len(matches) = 15
                    /\ NumNamed("Round 1") = 8 /\ NumNamed("Quarter-Final") = 4
                    /\ NumNamed("Semi-Final") = 2 /\ NumNamed("Final") = 1

\* A bracket for 33 competitors: rounds named Round 2 and Round 3 stand
\* between Round 1 and the Quarter-Final.
C13_Witness ==
    /\ NumEntered(1) = 33
    /\ NumNamed("Round 1") = 32 /\ NumNamed("Round 2") = 16
    /\ NumNamed("Round 3") = 8 /\ NumNamed("Quarter-Final") = 4
    /\ NumNamed("Semi-Final") = 2 /\ NumNamed("Final") = 1

\* C14 as stated: the bracket of a division of exactly 2 competitors is a
\* single match named "Final", and none of its matches is named "Round 1".
C14_TwoIsFinal ==
    (matches # <<>> /\ NumInBracket = 2) =>
        /\ Len(matches) = 1
        /\ matches[1].round_name = "Final"
        /\ NumNamed("Round 1") = 0

\* C14, amended: the bracket of a division of exactly 2 competitors is a
\* single match named "Round 1", holding the two competitors, without a next
\* match; no match named "Final" exists in that bracket.
C14_TwoIsRound1 ==
    (matches # <<>> /\ NumInBracket = 2) =>
        /\ Len(matches) = 1
        /\ matches[1].round_name = "Round 1"
        /\ matches[1].next_match_id = NULL
        /\ NumOccupied(matches[1]) = 2
        /\ NumNamed("Final") = 0

\* The bracket of two competitors stands.
C14_Witness ==
    /\ resp.op = "generate_bracket" /\ resp.code = 200
    /\ Len(competitors) = 2
    /\ Len(matches) = 1

\* The ids of the round-1 matches, in the order they were created.
Round1Ids ==
    SelectSeq([i \in 1..Len(matches) |-> i],
              LAMBDA i : matches[i].round_name = "Round 1")

SlotOf(m, k) == IF k = 0 THEN matches[m].competitor1_id ELSE matches[m].competitor2_id

\* C15: after a generation the competitor at index i (from 0) of the shuffled
\* list is in round-1 match i mod firstRoundMatchCount, slot
\* i div firstRoundMatchCount, and every competitor of the division is in
\* exactly one slot of the round-1 matches.
C15_DealtOnce ==
    (resp.op = "generate_bracket" /\ resp.code = 200) =>
        LET shuffled == resp.request
            num_first == BracketSize(Len(shuffled)) \div 2
        IN  /\ Len(Round1Ids) = num_first
            /\ {shuffled[i] : i \in 1..Len(shuffled)} =
                   {c \in 1..Len(competitors) :
                        competitors[c].division_id = matches[1].division_id}
            /\ \A i \in 0..(Len(shuffled) - 1) :
                   SlotOf(Round1Ids[(i % num_first) + 1], i \div num_first)
                       = shuffled[i + 1]
            /\ \A c \in 1..Len(competitors) :
                   competitors[c].division_id = matches[1].division_id =>
                       Cardinality({mk \in (1..num_first) \X {0, 1} :
                                       SlotOf(Round1Ids[mk[1]], mk[2]) = c}) = 1

\* Six competitors, not in id order, dealt over four round-1 matches.
C15_Witness ==
    /\ resp.op = "generate_bracket" /\ resp.code = 200
    /\ Len(resp.request) = 6
    /\ resp.request[1] = 4 /\ resp.request[5] = 2
    /\ Len(Round1Ids) = 4
    /\ matches[Round1Ids[1]].competitor2_id = 2

IsDeleteOp(op) == op \in {"ui_delete_division", "edit_division"}

\* C16: a delete of division d, through either endpoint, that is answered
\* with success while d has competitors and a bracket, leaves no division d,
\* no match of d and no competitor of d, and has deleted the matches, then the
\* competitors, then the division.
C16_DeleteCascades ==
    [][(/\ IsDeleteOp(resp'.op) /\ resp'.code = 200
        /\ \E c \in 1..Len(competitors) : competitors[c].division_id = resp'.request[1]
        /\ \E m \in 1..Len(matches) : matches[m].division_id = resp'.request[1]) =>
            LET d == resp'.request[1]
            IN  /\ d \in divisions /\ d \notin divisions'
                /\ \A m \in 1..Len(matches') : matches'[m].division_id # d
                /\ \A c \in 1..Len(competitors') : competitors'[c].division_id # d
                /\ SubSeq(resp'.request, 2, Len(resp'.request))
                       = <<"match", "competitor", "division">>
      ]_vars

\* Division 1 was deleted with its two competitors and its match, and the
\* competitors and the match of division 2 stand.
C16_Witness ==
    /\ resp.op = "ui_delete_division" /\ resp.code = 200
    /\ resp.request[1] = 1
    /\ divisions = {2}
    /\ Len(competitors) = 4 /\ competitors[1] = NoCompetitor
    /\ competitors[4].division_id = 2
    /\ Len(matches) = 2 /\ matches[1] = NoMatch
    /\ matches[2].division_id = 2

\* C17: a match has a match_number exactly when it has a ring_id; a
\* scheduling call that supplies a ring id and a sequence sets the match's
\* ring_id to the ring id and its match_number to ring id * 100 + sequence and
\* nothing else; a scheduling call that misses either changes nothing; and
\* no other step changes a ring_id or a match_number, so each match holds the
\* values of the last call that supplied both.
NumberIffRing ==
    \A m \in MatchIds :
        matches[m].match_number # NULL <=> matches[m].ring_id # NULL

ScheduleStep ==
    IF resp'.op = "schedule_match_htmx"
    THEN LET m == resp'.request[1]
             r == resp'.request[2]
             q == resp'.request[3]
         IN  /\ competitors' = competitors /\ divisions' = divisions
             /\ IF MatchExists(m) /\ r # NULL /\ q # NULL
                THEN /\ matches' = [matches EXCEPT ![m].ring_id = r,
                                                   ![m].match_number = (r * 100) + q]
                     /\ resp'.code = 200
                ELSE matches' = matches
    ELSE \A m \in MatchIds :
            (m \in 1..Len(matches') /\ matches'[m].division_id # NULL
             /\ matches[m].division_id # NULL) =>
                /\ matches'[m].ring_id = matches[m].ring_id
                /\ matches'[m].match_number = matches[m].match_number

C17_MatchNumber == []NumberIffRing /\ [][ScheduleStep]_vars

\* A match scheduled as number 225 was scheduled again without a ring: it is
\* still number 225 of ring 2.
C17_Witness ==
    /\ resp.op = "schedule_match_htmx"
    /\ MatchExists(resp.request[1])
    /\ resp.request[2] = NULL /\ resp.request[3] = 25
    /\ matches[resp.request[1]].ring_id = 2
    /\ matches[resp.request[1]].match_number = 225

\* C18: a request that names a match, division, ring or competitor that does
\* not exist is answered 404 and changes nothing: a result or a scheduling on
\* an unknown match, a delete or update of an unknown division, a generation
\* for an unknown division, a scheduling onto an unknown ring, a result for an
\* unknown winner.
NotFoundUnchanged ==
    /\ resp'.code = 404
    /\ matches' = matches /\ competitors' = competitors
    /\ divisions' = divisions /\ rings' = rings

C18_UnknownIsNotFound ==
    [][/\ ((IsResultOp(resp'.op) \/ resp'.op = "schedule_match_htmx")
            /\ ~MatchExists(resp'.request[1])) => NotFoundUnchanged
       /\ ((IsDeleteOp(resp'.op) \/ resp'.op = "edit_division_put")
            /\ resp'.request[1] \notin divisions) => NotFoundUnchanged
       /\ (resp'.op = "generate_bracket" /\ divisions = {}) => NotFoundUnchanged
       /\ (resp'.op = "schedule_match_htmx"
            /\ resp'.request[2] # NULL /\ resp'.request[2] \notin rings)
                => NotFoundUnchanged
       /\ (IsResultOp(resp'.op) /\ resp'.request[3] # NULL
            /\ ~(/\ resp'.request[3] \in 1..Len(competitors)
                  /\ competitors[resp'.request[3]].division_id # NULL))
                => NotFoundUnchanged
      ]_vars

\* C19: when the results of the two matches that feed a match are recorded by
\* concurrent requests, each reading the next match and then writing a slot
\* and committing, in any interleaving, no slot is overwritten: once both
\* requests are done the fed match holds both winners, one per slot.
C19_RacingWinnersMeet ==
    \A i, j \in 1..Len(reqs) :
        (/\ i # j
         /\ reqs[i].pc = "done" /\ reqs[j].pc = "done"
         /\ reqs[i].next_match_id # NULL
         /\ reqs[i].next_match_id = reqs[j].next_match_id) =>
            LET x == reqs[i].next_match_id
            IN  /\ NumOccupied(matches[x]) = 2
                /\ matches[x].competitor1_id # matches[x].competitor2_id
                /\ Slots(matches[x]) = {reqs[i].winner_id, reqs[j].winner_id}

\* C20: recording a result is not idempotent.  Whenever a result is recorded
\* again on a match with the status and the winner the match already has,
\* while the next match holds that winner in slot 1 and nobody in slot 2, the
\* call changes the state again: the winner is written into slot 2 as well,
\* and the next match holds the same competitor in both slots.
C20_RepeatAdvancesAgain ==
    [][(/\ IsResultOp(resp'.op)
        /\ MatchExists(resp'.request[1])
        /\ resp'.request[2] \in Decided
        /\ resp'.request[3] # NULL
        /\ matches[resp'.request[1]].status = resp'.request[2]
        /\ matches[resp'.request[1]].winner_id = resp'.request[3]
        /\ matches[resp'.request[1]].next_match_id # NULL
        /\ matches[matches[resp'.request[1]].next_match_id].competitor1_id
               = resp'.request[3]
        /\ matches[matches[resp'.request[1]].next_match_id].competitor2_id = NULL) =>
            LET nx == matches[resp'.request[1]].next_match_id
            IN  /\ matches' # matches
                /\ matches'[nx].competitor1_id = resp'.request[3]
                /\ matches'[nx].competitor2_id = resp'.request[3]
      ]_vars

\* A result was recorded twice: the next match holds the winner in both
\* slots, and the other match that feeds it, not yet decided, has no slot left
\* for its winner.
C20_Witness ==
    /\ IsResultOp(resp.op) /\ resp.code = 200
    /\ nOps = 2
    /\ MatchExists(resp.request[1])
    /\ matches[resp.request[1]].next_match_id # NULL
    /\ LET nx == matches[resp.request[1]].next_match_id
       IN  /\ matches[nx].competitor1_id = resp.request[3]
           /\ matches[nx].competitor2_id = resp.request[3]
           /\ \E p \in Preds(nx) :
                /\ p # resp.request[1]
                /\ matches[p].status = Pending
                /\ NumOccupied(matches[p]) = 2

\* Row `new` is row `old` but for the fields of `fields`.
SameBut(old, new, fields) ==
    \A f \in DOMAIN old : f \notin fields => new[f] = old[f]

\* C21: a result request on match m changes no table but Match, and no row
\* but m and m's next match.  With Completed or Disqualification, of m only
\* status and winner change, and of the next match at most one slot, which
\* was empty.  With In Progress only m's status changes, nothing is advanced,
\* and the form endpoint stores it without a winner.
C21_ResultFrame ==
    [][(IsResultOp(resp'.op) /\ MatchExists(resp'.request[1])) =>
        LET m == resp'.request[1]
            s == resp'.request[2]
            nx == matches[m].next_match_id
        IN  /\ competitors' = competitors /\ divisions' = divisions
            /\ rings' = rings
            /\ \/ matches' = matches
               \/ /\ Len(matches') = Len(matches)
                  /\ \A x \in MatchIds :
                        (x # m /\ x # nx) => matches'[x] = matches[x]
                  /\ SameBut(matches[m], matches'[m], {"status", "winner_id"})
                  /\ nx # NULL =>
                      /\ SameBut(matches[nx], matches'[nx],
                                 {"competitor1_id", "competitor2_id"})
                      /\ \/ matches'[nx].competitor1_id = matches[nx].competitor1_id
                         \/ matches'[nx].competitor2_id = matches[nx].competitor2_id
                      /\ matches[nx].competitor1_id # NULL =>
                             matches'[nx].competitor1_id = matches[nx].competitor1_id
                      /\ matches[nx].competitor2_id # NULL =>
                             matches'[nx].competitor2_id = matches[nx].competitor2_id
                  /\ s \notin Decided =>
                      /\ SameBut(matches[m], matches'[m], {"status"})
                      /\ nx # NULL => matches'[nx] = matches[nx]
            /\ (s = InProgress /\ resp'.op = "ui_record_result") =>
                /\ resp'.code = 200
                /\ matches'[m].status = InProgress
      ]_vars

\* A match with an empty next match was set In Progress, without a winner,
\* and a result then placed its winner in the next match.
C21_Witness ==
    /\ IsResultOp(resp.op) /\ resp.code = 200
    /\ nOps = 2
    /\ MatchExists(resp.request[1])
    /\ resp.request[2] \in Decided
    /\ matches[resp.request[1]].next_match_id # NULL
    /\ NumOccupied(matches[matches[resp.request[1]].next_match_id]) = 1
    /\ resp.request[3] \in Slots(matches[matches[resp.request[1]].next_match_id])
    /\ \E x \in MatchIds : x # resp.request[1] /\ matches[x].status = InProgress

\* C22: whatever generations were called for a division, its matches are one
\* bracket built in one pass: one of them has no next match, and they are
\* bracketSize - 1.
C22_OneBracket ==
    \A d \in DivIds :
        (\E m \in MatchIds : matches[m].division_id = d) =>
            LET own == {m \in MatchIds : matches[m].division_id = d}
            IN  /\ Cardinality({m \in own : matches[m].next_match_id = NULL}) = 1
                /\ Cardinality(own) = BracketSize(NumEntered(d)) - 1

\* The two matches that feed match x, in the order they were paired.
FirstPred(x) == CHOOSE p \in Preds(x) : \A q \in Preds(x) : p <= q
SecondPred(x) == CHOOSE p \in Preds(x) : \A q \in Preds(x) : q <= p

\* Generation wrote the known winner of each feeder into the feeder's slot.
ByeWinnersPushed ==
    \A x \in MatchIds :
        Preds(x) # {} =>
            /\ matches[x].competitor1_id = matches[FirstPred(x)].winner_id
            /\ matches[x].competitor2_id = matches[SecondPred(x)].winner_id

\* A bye went beyond round 2: a match above round 2 has an occupied slot, or
\* a match above round 1 has a winner.
Cascaded ==
    \E x \in MatchIds :
        \/ RoundOf(x) > 2 /\ NumOccupied(matches[x]) > 0
        \/ RoundOf(x) > 1 /\ matches[x].winner_id # NULL

\* Brackets for 2 up to SweepMaxComp competitors stand.
AllSizesBuilt == \A d \in SweepDivIds : HasBracket(d)

\* C23 as stated: generation writes a feeder's known bye winner into the new
\* match's slot for that feeder (first feeder slot 1, second slot 2), and for
\* some N within the bound a bye cascades: right after generation a match
\* above round 2 has an occupied slot or a match above round 1 has a winner.
C23_ByeCascades ==
    /\ ByeWinnersPushed
    /\ AllSizesBuilt => Cascaded

\* C23, amended: generation writes a feeder's known bye winner into the new
\* match's slot for that feeder (first feeder slot 1, second slot 2), and a
\* bye goes no further than round 2: for every N within the bound, right
\* after generation no match above round 2 has an occupied slot and no match
\* above round 1 has a winner.
C23_ByeStopsAtRound2 ==
    /\ ByeWinnersPushed
    /\ ~Cascaded

\* Brackets of every size stand; in the one for 5 competitors a round-2 match
\* holds two bye winners, has no winner itself, and the final above it is
\* empty.
C23_Witness ==
    /\ AllSizesBuilt
    /\ \E x \in MatchIds :
        /\ RoundOf(x) = 2
        /\ NumOccupied(matches[x]) = 2
        /\ \A p \in Preds(x) : matches[p].status = Bye
        /\ matches[x].winner_id = NULL
        /\ matches[x].next_match_id # NULL
        /\ NumOccupied(matches[matches[x].next_match_id]) = 0

\* The byes among the round-1 matches lo..hi, in bracket order.
ByesIn(lo, hi) ==
    Cardinality({k \in lo..hi : matches[Round1Ids[k]].status = Bye})

Diff(a, b) == IF a >= b THEN a - b ELSE b - a

Min(a, b) == IF a <= b THEN a ELSE b

\* C24 as stated: in a bracket of size 4 or more the first half and the
\* second half of the round-1 matches, in bracket order, hold numbers of byes
\* that differ by at most one.
C24_ByesEven ==
    (matches # <<>> /\ BracketSize(NumInBracket) >= 4) =>
        LET num_first == Len(Round1Ids)
        IN  Diff(ByesIn(1, num_first \div 2),
                 ByesIn((num_first \div 2) + 1, num_first)) <= 1

\* C24, amended: in a bracket of size 4 or more the byes are the last
\* bracketSize - N round-1 matches in bracket order, every round-1 match
\* before them being full: the second half of the round-1 matches holds as
\* many of the byes as it has matches for, the first half only the rest.
C24_ByesLast ==
    (matches # <<>> /\ BracketSize(NumInBracket) >= 4) =>
        LET num_first == Len(Round1Ids)
            byes == BracketSize(NumInBracket) - NumInBracket
        IN  /\ num_first = BracketSize(NumInBracket) \div 2
            /\ \A k \in 1..num_first :
                IF k > num_first - byes
                THEN matches[Round1Ids[k]].status = Bye
                ELSE /\ matches[Round1Ids[k]].status = Pending
                     /\ NumOccupied(matches[Round1Ids[k]]) = 2
            /\ ByesIn((num_first \div 2) + 1, num_first)
                   = Min(byes, num_first \div 2)
            /\ ByesIn(1, num_first \div 2)
                   = byes - Min(byes, num_first \div 2)

\* Six competitors: both byes are in the second half of the round-1 matches,
\* none in the first.
C24_Witness ==
    /\ matches # <<>>
    /\ NumInBracket = 6
    /\ Len(Round1Ids) = 4
    /\ ByesIn(1, 2) = 0
    /\ ByesIn(3, 4) = 2

====
